---- MODULE Spec2Model ----
(***************************************************************************)
(* Client-side session subsystem of the planning front end:                *)
(*   - the Credential Store (localStorage keys 'token', 'user',            *)
(*     'access_token'), shared by every tab of the origin;                 *)
(*   - useAuth (hooks/useApi.js): login / logout mutations, the 'user'     *)
(*     profile query, the 'auth:logout' and 'storage' listeners;           *)
(*   - the axios instance of services/api.js with its request and response *)
(*     interceptors;                                                       *)
(*   - the Apollo client module graphql/client.js: authLink, errorLink,    *)
(*     the client singleton and its rebuild.                               *)
(* The model follows one tab.  Every handler of the tab (a promise         *)
(* callback, an event listener, an interceptor) runs to completion on the  *)
(* tab's event loop and is one action.  The other tabs of the origin run   *)
(* the same code; they reach this tab only through localStorage and the    *)
(* 'storage' events their writes queue here.  The server is an external    *)
(* collaborator: what it answers is chosen freely.                         *)
(***************************************************************************)
EXTENDS Naturals, FiniteSets, Sequences, TLC

VARIABLES
    ls,                    \* localStorage of the origin: key -> string | None
    qcUser,                \* react-query data under key 'user'
    inflight,              \* requests sent and not yet answered
    apolloClientInstance,  \* identity of the Apollo client singleton
    rendered,              \* isAuthenticated as of AppContent's last render
    navPending,            \* window.location.href was assigned, page not yet reloaded
    storageEv,             \* queued 'storage' events with key 'token'
    last,                  \* the handler that ran last and what it did
    apolloVersion,         \* AppContent's state: the key of the ApolloProvider
    providerClient,        \* the client AppContent's last render gave the ApolloProvider
    builtWith,             \* the token authToken() gave when the singleton was built
    notifications,         \* Header: notificationsData.notifications of the mounted client
    processingInvitation,  \* Header's state of that name
    notificationsQuery,    \* the NOTIFICATIONS_QUERY fetch under way, if any
    responding,            \* RESPOND_INVITATION mutations sent and not yet completed
    serverNotifications,   \* server: the user's Notification rows
    invitations,           \* server: status of each Invitation
    collaborators,         \* server: Collaborator rows created per Invitation
    queryCache,            \* react-query: the keys marked stale and the mutation under way
    modal,                 \* CreatePlanModal: its form state and what onSubmit did
    dashboard              \* Dashboard: the 'sharedPlans' query and the list it shows

\* the Apollo client's view of the session
clientVars == <<apolloVersion, providerClient, builtWith>>

\* the Header's notification state and the server state behind it
hvars == <<notifications, processingInvitation, notificationsQuery, responding,
           serverNotifications, invitations, collaborators>>

svars == <<ls, qcUser, inflight, apolloClientInstance, rendered,
           navPending, storageEv, last>>

\* the plan pages: the query cache, the CreatePlanModal, the Dashboard
pvars == <<queryCache, modal, dashboard>>

vars == <<svars, clientVars, hvars, pvars>>

----------------------------------------------------------------------------
(* Bounds *)

MaxInflight == 2
MaxGen == 2
MaxStorageEv == 1
MaxNotif == 2

----------------------------------------------------------------------------
(* Values *)

None == "null"

Keys == {"token", "user", "access_token"}
Tokens == {"tokA", "tokB"}
Users == {"alice", "bob"}

\* Notification ids; notification n carries invitationId n
NotifIds == 1..MaxNotif

\* useState(null) of processingInvitation: no invitation is being processed
NoInvitation == 0

\* react-query: no query is stale, no mutation was sent
NoQueryCache == [stale |-> {}, mutation |-> "none", done |-> "none", invalidated |-> {}]

\* CreatePlanModal as it mounts: useState(['']), useState(null).  create: the state
\* of the creation request; entered, invited: the valid emails of the last
\* submit and the invites it sent; onPlanCreated: the callback was called
NewModal == [inviteEmails |-> << <<>> >>, create |-> "idle", entered |-> 0,
             invited |-> <<>>, onPlanCreated |-> FALSE, submissionError |-> FALSE]

\* Dashboard with its first fetch answered: no shared plan, nothing under way
NoDashboard == [shared |-> {}, fetch |-> {}]

\* The external auth API: the profile behind an access token.
UserOf(tk) == IF tk = "tokA" THEN "alice" ELSE "bob"

\* the profile object stored without JSON.stringify
JSONstringify_Raw(u) == "[object Object]"

\* JSON.stringify / JSON.parse on a user profile.
JSONstringify(u) == IF u = "alice" THEN "{id:alice}" ELSE "{id:bob}"
JSONparse(s) ==
    IF s = "null" THEN None
    ELSE IF s = "{id:alice}" THEN "alice" ELSE "bob"

UserStrings == {JSONstringify(u) : u \in Users}

\* JSON.parse throws a SyntaxError on a string that is no JSON text
JSONparseThrows(s) == s \notin {"null", "{id:alice}", "{id:bob}"}

\* localStorage.getItem / setItem / removeItem
getItem(store, k) == store[k]
setItem(store, k, v) == [store EXCEPT ![k] = v]
removeItem(store, k) == [store EXCEPT ![k] = None]

\* JavaScript truthiness of a stored string and the || operator
Truthy(v) == v # None /\ v # ""
Or(a, b) == IF Truthy(a) THEN a ELSE b

----------------------------------------------------------------------------
(* services/api.js: the axios instance *)

Bearer(tk) == IF tk = "tokA" THEN "Bearer tokA" ELSE "Bearer tokB"
UserOfBearer(h) == IF h = "Bearer tokA" THEN "alice" ELSE "bob"
AuthHeaders == {Bearer(tk) : tk \in Tokens}

\* api.interceptors.request: the Authorization header of an outgoing request
requestInterceptor(store) ==
    IF Truthy(getItem(store, "token")) THEN Bearer(getItem(store, "token")) ELSE None

\* import.meta.env.VITEST: unset in the application's build
VITEST == FALSE

\* HTTP outcomes of a failed REST call; NoResponse is a transport failure
NoResponse == 0
ErrorStatuses == {401, 403, 404, 500, NoResponse}

\* an interceptor that removes the token and leaves the cached profile
responseInterceptor_KeepUser(store, status, isVitest) ==
    IF status = 401
    THEN [store |-> removeItem(store, "token"), logout |-> TRUE, redirect |-> ~isVitest]
    ELSE [store |-> store, logout |-> FALSE, redirect |-> FALSE]

\* an interceptor that ends the session on 403 as well
responseInterceptor_Forbidden(store, status, isVitest) ==
    IF status \in {401, 403}
    THEN [store |-> removeItem(removeItem(store, "token"), "user"),
          logout |-> TRUE,
          redirect |-> ~isVitest]
    ELSE [store |-> store, logout |-> FALSE, redirect |-> FALSE]

\* an interceptor that leaves navigation to the presentation layer
responseInterceptor_NoRedirect(store, status, isVitest) ==
    IF status = 401
    THEN [store |-> removeItem(removeItem(store, "token"), "user"),
          logout |-> TRUE,
          redirect |-> FALSE]
    ELSE [store |-> store, logout |-> FALSE, redirect |-> FALSE]

\* api.interceptors.response, error branch: what it does to the store, whether
\* it dispatches 'auth:logout', whether it assigns window.location.href
responseInterceptor(store, status, isVitest) ==
    IF status = 401
    THEN [store |-> removeItem(removeItem(store, "token"), "user"),
          logout |-> TRUE,
          redirect |-> ~isVitest]
    ELSE [store |-> store, logout |-> FALSE, redirect |-> FALSE]

\* the toasts the error branch shows for one failed response: each arm of the
\* if/else chain calls toast.error once
interceptorToasts(status) == 1

\* return Promise.reject(error): the caller's promise is rejected whatever the status
interceptorRejects(status) == TRUE

\* the error toasts of the call site that awaited the rejected promise:
\* AuthPage.onSubmit's catch shows one; Header.handleLogout's catch, the
\* profile query and the onError of a read (usePlanUsers.usersQuery) only log
callSiteToasts(kind) == IF kind \in {"login", "register"} THEN 1 ELSE 0

----------------------------------------------------------------------------
(* graphql/client.js *)

authToken(store) == Or(getItem(store, "token"), getItem(store, "access_token"))

\* an authLink that reads the legacy key only
authLink_AccessTokenOnly(store) ==
    IF Truthy(getItem(store, "access_token"))
    THEN Bearer(getItem(store, "access_token")) ELSE None

\* an authLink that sends the token the instance was built with
authLink_Baked(store) == IF Truthy(builtWith) THEN Bearer(builtWith) ELSE None

\* authLink: evaluated for every operation the client sends
authLink(store) ==
    IF Truthy(authToken(store)) THEN Bearer(authToken(store)) ELSE None

\* Messages a resolver may put in graphQLErrors, and String.toLowerCase on them
Messages == {"Authentication required", "Not authorized", "Invalid JWT", "Plan not found"}
toLowerCase(m) ==
    CASE m = "Authentication required" -> "authentication required"
      [] m = "Not authorized" -> "not authorized"
      [] m = "Invalid JWT" -> "invalid jwt"
      [] OTHER -> "plan not found"
\* String.includes for the lower-cased messages above
includes(m, pat) ==
    \/ m = pat
    \/ m = "invalid jwt" /\ pat = "jwt"

\* The messages among them that name a resolver-level authorization failure
\* ('authentication required', 'not authorized' or 'jwt' in any letter case)
ResolverAuthMessages == {"Authentication required", "Not authorized", "Invalid JWT"}
NamesResolverAuth(graphQLErrors) == graphQLErrors \cap ResolverAuthMessages # {}

\* the same test without toLowerCase()
hasResolverAuthError_CaseSensitive(graphQLErrors) ==
    \E err \in graphQLErrors :
        \/ includes(err, "authentication required")
        \/ includes(err, "not authorized")
        \/ includes(err, "jwt")

hasResolverAuthError(graphQLErrors) ==
    \E err \in graphQLErrors :
        LET msg == toLowerCase(err)
        IN  \/ includes(msg, "authentication required")
            \/ includes(msg, "not authorized")
            \/ includes(msg, "jwt")

NetStatuses == {NoResponse, 401, 500}

\* The graphQLErrors an operation may end with: none, one message, or a
\* resolver-level authorization message next to another error
GraphQLErrorSets ==
    {{}} \cup {{m} : m \in Messages} \cup {{"Authentication required", "Plan not found"}}

\* errorLink = onError(...): networkError is the status of the network error
\* (NoResponse when the operation carries none); pathname is window.location.pathname
errorLink(store, graphQLErrors, networkError, pathname) ==
    IF hasResolverAuthError(graphQLErrors)
    THEN [store |-> store, logout |-> FALSE, redirect |-> FALSE]
    ELSE IF networkError = 401
    THEN [store |-> removeItem(removeItem(removeItem(store, "token"), "access_token"), "user"),
          logout |-> TRUE,
          redirect |-> pathname # "/login"]
    ELSE [store |-> store, logout |-> FALSE, redirect |-> FALSE]

\* buildClient(): a fresh instance; instances are told apart by a generation number
buildClient(gen) == gen + 1

\* getApolloClient(): the singleton, read without a side effect
getApolloClient(instance) == instance

\* a reset that announces 'apollo:reset' and keeps the instance it had
resetApolloClient_Keep(gen) == gen

\* resetApolloClient(): replaces the singleton and dispatches 'apollo:reset'
resetApolloClient(gen) == buildClient(gen)

\* a 'storage' listener that watches the profile entry instead of the token
onStorage_UserKey(key, gen) == IF key = "user" THEN resetApolloClient(gen) ELSE gen

\* window.addEventListener('storage', ...): rebuilds when the key is 'token'
onStorage(key, gen) == IF key = "token" THEN resetApolloClient(gen) ELSE gen

\* the listeners client.js registers for 'auth:logout': one, at module evaluation
AuthLogoutResets == 1

----------------------------------------------------------------------------
(* hooks/useApi.js: useAuth *)

\* a login that stores the token under the legacy key
loginOnSuccess_LegacyKey(store, data) ==
    setItem(setItem(store, "access_token", data.access_token), "user", JSONstringify(data.user))

\* loginMutation.onSuccess
loginOnSuccess(store, data) ==
    setItem(setItem(store, "token", data.access_token), "user", JSONstringify(data.user))

\* a logout that forgets the cached profile entry
logoutOnSuccess_TokenOnly(store) == removeItem(store, "token")

\* logoutMutation.onSuccess
logoutOnSuccess(store) == removeItem(removeItem(store, "token"), "user")

\* a clear() that leaves the cached entries in place
queryClientClear_Keep(q) == q

\* queryClient.clear()
queryClientClear(q) == None

\* handleLogoutEvent: the 'auth:logout' listener of a mounted useAuth
handleLogoutEvent(q) == queryClientClear(q)

\* handleStorage: the 'storage' listener of a mounted useAuth re-renders on
\* key 'token' and leaves the query cache alone
handleStorage(key, q) == q

isAuthenticated(store) == Truthy(getItem(store, "token"))

\* const user = profileQuery.data || JSON.parse(localStorage.getItem('user') || 'null')
useAuthUser(store, q) == Or(q, JSONparse(Or(getItem(store, "user"), "null")))

\* the same expression throws when profileQuery.data is falsy and the stored
\* 'user' string does not parse
useAuthThrows(store, q) ==
    ~Truthy(q) /\ JSONparseThrows(Or(getItem(store, "user"), "null"))

\* AppContent.onReset: setApolloVersion(v => v + 1)
onReset(v) == v + 1

\* the route AppInner settles on for a render with the given isAuthenticated
pathname(auth) == IF auth THEN "/dashboard" ELSE "/login"

----------------------------------------------------------------------------
(* Requests in flight and the bookkeeping shared by the actions *)

Kinds == {"login", "logout", "profile", "read", "gql", "register"}

\* kind: the call; auth: the Authorization header it was sent with; live: FALSE
\* once queryClient.clear() removed the query that awaits it
Request(kind, auth) == [kind |-> kind, auth |-> auth, live |-> TRUE]

Pending(kind) == {r \in inflight : r.kind = kind}

\* queryClient.clear() removes the 'user' query: a profile fetch still under
\* way no longer reaches the cache
Orphan(rs) == {IF r.kind = "profile" THEN [r EXCEPT !.live = FALSE] ELSE r : r \in rs}

\* op: the handler; status: the HTTP status it was given; events: the window
\* events it dispatched; data: the access_token of a login response;
\* resolverAuth: the graphQLErrors given to errorLink held a resolver-level
\* authorization message; clears: calls of queryClient.clear(); resets: calls
\* of resetApolloClient(); toasts: error messages shown; rejected: the call
\* site's promise was rejected
Record(op, status, events, data, resolverAuth) ==
    [op |-> op, status |-> status, events |-> events, data |-> data,
     resolverAuth |-> resolverAuth, clears |-> 0,
     resets |-> 0, toasts |-> 0, rejected |-> FALSE]

\* the header a request of this kind would get from the store now
HeaderNow(kind, store) ==
    IF kind = "gql" THEN authLink(store) ELSE requestInterceptor(store)

TypeOK ==
    /\ ls \in [Keys -> Tokens \cup UserStrings \cup {None}]
    /\ qcUser \in Users \cup {None}
    /\ \A r \in inflight :
          r.kind \in Kinds /\ r.auth \in AuthHeaders \cup {None} /\ r.live \in BOOLEAN
    /\ Cardinality(inflight) <= MaxInflight
    /\ apolloClientInstance \in 0..MaxGen
    /\ rendered \in BOOLEAN
    /\ navPending \in BOOLEAN
    /\ storageEv \in 0..MaxStorageEv
    /\ apolloVersion \in 0..MaxGen
    /\ providerClient \in 0..MaxGen
    /\ builtWith \in Tokens \cup {None}
    /\ processingInvitation \in NotifIds \cup {NoInvitation}
    /\ Cardinality(notificationsQuery) <= 1
    /\ serverNotifications \in [NotifIds -> {"absent", "unread", "read"}]
    /\ invitations \in [NotifIds -> {"absent", "pending", "accepted", "rejected"}]

Init ==
    /\ ls = [k \in Keys |-> None]
    /\ qcUser = None
    /\ inflight = {}
    /\ apolloClientInstance = 0
    /\ rendered = FALSE
    /\ navPending = FALSE
    /\ storageEv = 0
    /\ last = Record("init", NoResponse, {}, None, FALSE)
    /\ apolloVersion = 0
    /\ providerClient = getApolloClient(apolloClientInstance)
    /\ builtWith = authToken(ls)
    /\ notifications = <<>>
    /\ processingInvitation = NoInvitation
    /\ notificationsQuery = {}
    /\ responding = {}
    /\ serverNotifications = [n \in NotifIds |-> "absent"]
    /\ invitations = [n \in NotifIds |-> "absent"]
    /\ collaborators = [n \in NotifIds |-> 0]
    /\ queryCache = NoQueryCache
    /\ modal = NewModal
    /\ dashboard = NoDashboard

----------------------------------------------------------------------------
(* The 'auth:logout' broadcast, after a data layer left `store`: client.js's  *)
(* listener rebuilds the Apollo client, AppContent's 'apollo:reset' listener  *)
(* bumps the provider key, every mounted useAuth clears the query cache and   *)
(* re-renders; `redirect` is the assignment of window.location.href that      *)
(* follows the dispatch.                                                      *)

ForcedInvalidation(store, redirect) ==
    /\ apolloClientInstance < MaxGen
    /\ ls' = store
    /\ apolloClientInstance' = resetApolloClient(apolloClientInstance)
    /\ builtWith' = authToken(store)
    /\ apolloVersion' = onReset(apolloVersion)
    /\ providerClient' = getApolloClient(apolloClientInstance')
    /\ qcUser' = handleLogoutEvent(qcUser)
    /\ rendered' = isAuthenticated(store)
    /\ navPending' = (navPending \/ redirect)

LogoutEvents == {"auth:logout", "apollo:reset"}

----------------------------------------------------------------------------
(* AuthPage.onSubmit -> useAuth.login *)

LoginSubmit ==
    /\ ~rendered /\ ~navPending
    /\ Pending("login") = {}
    /\ Cardinality(inflight) < MaxInflight
    /\ inflight' = inflight \cup {Request("login", requestInterceptor(ls))}
    /\ last' = Record("loginSubmit", NoResponse, {}, None, FALSE)
    /\ UNCHANGED <<ls, qcUser, apolloClientInstance, clientVars, rendered, navPending, storageEv, hvars, pvars>>

\* POST /login answered {access_token, user}: loginMutation.onSuccess, then
\* AuthPage navigates to /dashboard
LoginSuccess ==
    \E r \in Pending("login"), tk \in Tokens :
        LET data == [access_token |-> tk, user |-> UserOf(tk)]
            store == loginOnSuccess(ls, data)
        IN  /\ ls' = store
            /\ qcUser' = data.user
            /\ rendered' = isAuthenticated(store)
            /\ inflight' = inflight \ {r}
            /\ last' = Record("loginSuccess", NoResponse, {}, data.access_token, FALSE)
            /\ UNCHANGED <<apolloClientInstance, clientVars, navPending, storageEv, hvars, pvars>>

----------------------------------------------------------------------------
(* AuthPage.onSubmit -> useAuth.register *)

RegisterSubmit ==
    /\ ~rendered /\ ~navPending
    /\ Pending("register") = {}
    /\ Cardinality(inflight) < MaxInflight
    /\ inflight' = inflight \cup {Request("register", requestInterceptor(ls))}
    /\ last' = Record("registerSubmit", NoResponse, {}, None, FALSE)
    /\ UNCHANGED <<ls, qcUser, apolloClientInstance, clientVars, rendered, navPending, storageEv, hvars, pvars>>

\* POST /register answered 2xx: registerMutation.onSuccess shows a toast, then
\* AuthPage resets the form and navigates to /login
RegisterSuccess ==
    \E r \in Pending("register") :
        /\ inflight' = inflight \ {r}
        /\ last' = Record("registerSuccess", NoResponse, {}, None, FALSE)
        /\ UNCHANGED <<ls, qcUser, apolloClientInstance, clientVars, rendered, navPending, storageEv, hvars, pvars>>

----------------------------------------------------------------------------
(* Header.handleLogout -> useAuth.logoutAsync *)

\* AppContent shows the spinner instead of AppInner while profileQuery.isLoading
ProfileLoading == qcUser = None /\ Pending("profile") # {}
HeaderMounted == rendered /\ ~ProfileLoading

\* the components that called useAuth() and are mounted, each with its own
\* 'auth:logout' and 'storage' listeners: AppContent always; below the spinner
\* the Header when authenticated, the AuthPage when not
MountedUseAuth == 1 + (IF ProfileLoading THEN 0 ELSE 1)

LogoutClick ==
    /\ HeaderMounted /\ ~navPending
    /\ Pending("logout") = {}
    /\ Cardinality(inflight) < MaxInflight
    /\ inflight' = inflight \cup {Request("logout", requestInterceptor(ls))}
    /\ last' = Record("logoutClick", NoResponse, {}, None, FALSE)
    /\ UNCHANGED <<ls, qcUser, apolloClientInstance, clientVars, rendered, navPending, storageEv, hvars, pvars>>

\* POST /logout answered 2xx: logoutMutation.onSuccess, then Header navigates
\* to /login
LogoutSuccess ==
    \E r \in Pending("logout") :
        LET store == logoutOnSuccess(ls)
        IN  /\ ls' = store
            /\ rendered' = isAuthenticated(store)
            /\ qcUser' = queryClientClear(qcUser)
            /\ inflight' = Orphan(inflight \ {r})
            /\ last' = [Record("logoutSuccess", NoResponse, {}, None, FALSE)
                           EXCEPT !.clears = 1]
            /\ UNCHANGED <<apolloClientInstance, clientVars, navPending, storageEv, hvars, pvars>>

----------------------------------------------------------------------------
(* Other REST traffic: the 'user' profile query of useAuth and the reads of  *)
(* the authenticated pages                                                    *)

\* useQuery('user', authAPI.getProfile, {enabled: !!token}): fetches when
\* enabled, with nothing cached and no fetch under way
ProfileFetch ==
    /\ rendered /\ ~navPending
    /\ qcUser = None
    /\ Pending("profile") = {}
    /\ Cardinality(inflight) < MaxInflight
    /\ inflight' = inflight \cup {Request("profile", requestInterceptor(ls))}
    /\ last' = Record("profileFetch", NoResponse, {}, None, FALSE)
    /\ UNCHANGED <<ls, qcUser, apolloClientInstance, clientVars, rendered, navPending, storageEv, hvars, pvars>>

\* a background read issued by a page behind the login (plans, sections, ...)
RestRead ==
    /\ HeaderMounted /\ ~navPending
    /\ Pending("read") = {}
    /\ Cardinality(inflight) < MaxInflight
    /\ inflight' = inflight \cup {Request("read", requestInterceptor(ls))}
    /\ last' = Record("restRead", NoResponse, {}, None, FALSE)
    /\ UNCHANGED <<ls, qcUser, apolloClientInstance, clientVars, rendered, navPending, storageEv, hvars, pvars>>

\* GET /me answered with the profile of the token the request carried
ProfileSuccess ==
    \E r \in Pending("profile") :
        /\ r.auth # None
        /\ qcUser' = IF r.live THEN UserOfBearer(r.auth) ELSE qcUser
        /\ rendered' = IF r.live THEN isAuthenticated(ls) ELSE rendered
        /\ inflight' = inflight \ {r}
        /\ last' = Record("profileSuccess", NoResponse, {}, None, FALSE)
        /\ UNCHANGED <<ls, apolloClientInstance, clientVars, navPending, storageEv, hvars, pvars>>

ReadSuccess ==
    \E r \in Pending("read") :
        /\ inflight' = inflight \ {r}
        /\ last' = Record("readSuccess", NoResponse, {}, None, FALSE)
        /\ UNCHANGED <<ls, qcUser, apolloClientInstance, clientVars, rendered, navPending, storageEv, hvars, pvars>>

\* Any REST call failing with `status`: the response interceptor runs, then the
\* error is rejected to the caller (loginMutation.onError and AuthPage's catch,
\* logoutMutation.onError and Header's catch with navigate('/login'), the
\* query's error state): none of the callers touches the session.
RestFailOp(kind) ==
    CASE kind = "login" -> "loginFail"
      [] kind = "logout" -> "logoutFail"
      [] kind = "profile" -> "profileFail"
      [] kind = "register" -> "registerFail"
      [] OTHER -> "readFail"

RestError ==
    \E r \in inflight \ Pending("gql"), status \in ErrorStatuses :
        LET out == responseInterceptor(ls, status, VITEST)
        IN  /\ IF out.logout
               THEN /\ ForcedInvalidation(out.store, out.redirect)
                    /\ inflight' = Orphan(inflight \ {r})
               ELSE /\ ls' = out.store
                    /\ inflight' = inflight \ {r}
                    /\ UNCHANGED <<qcUser, apolloClientInstance, clientVars, rendered, navPending>>
            /\ last' = [Record(RestFailOp(r.kind), status,
                               IF out.logout THEN LogoutEvents ELSE {}, None, FALSE)
                           EXCEPT !.clears = IF out.logout THEN MountedUseAuth ELSE 0,
                                  !.resets = IF out.logout THEN AuthLogoutResets ELSE 0,
                                  !.toasts = interceptorToasts(status) + callSiteToasts(r.kind),
                                  !.rejected = interceptorRejects(status)]
            /\ UNCHANGED <<storageEv, hvars, pvars>>

----------------------------------------------------------------------------
(* GraphQL traffic of the Header (notifications, invitations) *)

GqlRequest ==
    /\ HeaderMounted /\ ~navPending
    /\ Pending("gql") = {}
    /\ Cardinality(inflight) < MaxInflight
    /\ inflight' = inflight \cup {Request("gql", authLink(ls))}
    /\ last' = Record("gqlRequest", NoResponse, {}, None, FALSE)
    /\ UNCHANGED <<ls, qcUser, apolloClientInstance, clientVars, rendered, navPending, storageEv, hvars, pvars>>

GqlSuccess ==
    \E r \in Pending("gql") :
        /\ inflight' = inflight \ {r}
        /\ last' = Record("gqlSuccess", NoResponse, {}, None, FALSE)
        /\ UNCHANGED <<ls, qcUser, apolloClientInstance, clientVars, rendered, navPending, storageEv, hvars, pvars>>

\* The operation ends with graphQLErrors and/or a network error: errorLink runs
GqlError ==
    \E r \in Pending("gql"), graphQLErrors \in GraphQLErrorSets, networkError \in NetStatuses :
        /\ graphQLErrors # {} \/ networkError # NoResponse
        /\ LET out == errorLink(ls, graphQLErrors, networkError, pathname(rendered))
           IN  /\ IF out.logout
                  THEN /\ ForcedInvalidation(out.store, out.redirect)
                       /\ inflight' = Orphan(inflight \ {r})
                  ELSE /\ ls' = out.store
                       /\ inflight' = inflight \ {r}
                       /\ UNCHANGED <<qcUser, apolloClientInstance, clientVars, rendered, navPending>>
               /\ last' = [Record("gqlError", networkError,
                                  IF out.logout THEN LogoutEvents ELSE {},
                                  None, NamesResolverAuth(graphQLErrors))
                              EXCEPT !.clears = IF out.logout THEN MountedUseAuth ELSE 0,
                                     !.resets = IF out.logout THEN AuthLogoutResets ELSE 0]
        /\ UNCHANGED <<storageEv, hvars, pvars>>

----------------------------------------------------------------------------
(* The window 'storage' listeners and the page reload *)

\* A 'storage' event with key 'token' is handled: client.js rebuilds the
\* Apollo client, useAuth.handleStorage re-renders
StorageEventSession ==
    /\ storageEv > 0
    /\ apolloClientInstance < MaxGen
    /\ storageEv' = storageEv - 1
    /\ apolloClientInstance' = onStorage("token", apolloClientInstance)
    /\ builtWith' = authToken(ls)
    /\ apolloVersion' = onReset(apolloVersion)
    /\ providerClient' = getApolloClient(apolloClientInstance')
    /\ qcUser' = handleStorage("token", qcUser)
    /\ rendered' = isAuthenticated(ls)
    /\ last' = [Record("storage", NoResponse, {"apollo:reset"}, None, FALSE)
                   EXCEPT !.resets = 1]
    /\ UNCHANGED <<ls, inflight, navPending>>

StorageEvent == StorageEventSession /\ UNCHANGED <<hvars, pvars>>

\* The navigation started by window.location.href = '/login' commits: the
\* document is replaced, its modules are evaluated again
PageLoad ==
    /\ navPending
    /\ navPending' = FALSE
    /\ qcUser' = None
    /\ inflight' = {}
    /\ apolloClientInstance' = 0
    /\ builtWith' = authToken(ls)
    /\ apolloVersion' = 0
    /\ providerClient' = getApolloClient(apolloClientInstance')
    /\ rendered' = isAuthenticated(ls)
    /\ storageEv' = 0
    /\ last' = Record("pageLoad", NoResponse, {}, None, FALSE)
    /\ UNCHANGED <<ls, hvars, pvars>>

----------------------------------------------------------------------------
(* Another tab of the origin writes the Credential Store *)

\* the 'storage' event a change of the 'token' entry queues for this tab
StorageChange(old, new) ==
    IF getItem(old, "token") # getItem(new, "token") THEN storageEv + 1 ELSE storageEv

\* loginMutation.onSuccess in another tab
OtherTabLogin ==
    \E tk \in Tokens :
        LET store == loginOnSuccess(ls, [access_token |-> tk, user |-> UserOf(tk)])
        IN  /\ StorageChange(ls, store) <= MaxStorageEv
            /\ ls' = store
            /\ storageEv' = StorageChange(ls, store)
            /\ last' = Record("otherTabLogin", NoResponse, {}, None, FALSE)
            /\ UNCHANGED <<qcUser, inflight, apolloClientInstance, clientVars, rendered,
                           navPending, hvars, pvars>>

\* logoutMutation.onSuccess or a forced invalidation in another tab
OtherTabLogout ==
    \E store \in {logoutOnSuccess(ls),
                  responseInterceptor(ls, 401, VITEST).store,
                  errorLink(ls, {}, 401, "/dashboard").store} :
        /\ StorageChange(ls, store) <= MaxStorageEv
        /\ ls' = store
        /\ storageEv' = StorageChange(ls, store)
        /\ last' = Record("otherTabLogout", NoResponse, {}, None, FALSE)
        /\ UNCHANGED <<qcUser, inflight, apolloClientInstance, clientVars, rendered,
                       navPending, hvars, pvars>>

----------------------------------------------------------------------------
(* components/common/Header.jsx: the notification list, the unread badge and  *)
(* the invitation buttons, with the Realtime API behind them.  The resolvers  *)
(* of that API are not among the frontend sources; they follow the data model *)
(* and section 4.4 of the design.                                             *)

\* the session variables a Header handler leaves alone
sessionVars == <<ls, qcUser, inflight, apolloClientInstance, rendered, navPending,
                 storageEv, clientVars>>

Terminal == {"accepted", "rejected"}

\* notification.type === 'plan_invitation' && notification.invitationId
IsInvitation(n) == n % 2 = 1

\* Realtime API, notifications: the user's rows, in id order
RECURSIVE notificationsFrom(_, _)
notificationsFrom(rows, n) ==
    IF n > MaxNotif THEN <<>>
    ELSE (IF rows[n] = "absent" THEN <<>> ELSE <<[id |-> n, status |-> rows[n]]>>)
         \o notificationsFrom(rows, n + 1)

notificationsResolver(rows) == notificationsFrom(rows, 1)

\* a resolver that applies every call, whatever the invitation's status
respondInvitation_Overwrite(status, rows, accept) ==
    [status |-> IF accept THEN "accepted" ELSE "rejected",
     collaborators |-> IF accept THEN rows + 1 ELSE rows,
     reported |-> IF accept THEN "accepted" ELSE "rejected"]

\* Realtime API, respondInvitation: a pending invitation becomes accepted (with
\* a Collaborator row) or rejected; a terminal one is reported as it stands
respondInvitation(status, rows, accept) ==
    IF status = "pending"
    THEN [status |-> IF accept THEN "accepted" ELSE "rejected",
          collaborators |-> IF accept THEN rows + 1 ELSE rows,
          reported |-> IF accept THEN "accepted" ELSE "rejected"]
    ELSE [status |-> status, collaborators |-> rows, reported |-> status]

\* Realtime API, markNotificationRead
markNotificationRead(rows, n) == [rows EXCEPT ![n] = "read"]

\* a merge that appends the incoming list to the cached one
merge_Append(existing, incoming) == existing \o incoming

\* typePolicies.Query.fields.notifications.merge of buildClient
merge(existing, incoming) == incoming

\* const unreadCount = notifications.filter(n => n.status === 'unread').length
IsUnread(n) == n.status = "unread"
unreadCount(list) == Len(SelectSeq(list, IsUnread))

\* the ids shown in a list
ListIds(list) == {list[i].id : i \in 1..Len(list)}

\* refetch(): a network fetch of NOTIFICATIONS_QUERY that supersedes the one
\* under way.  known: the rows the server held when the fetch was issued
refetch(rows) ==
    {[known |-> {n \in NotifIds : rows[n] # "absent"}, answered |-> FALSE, list |-> <<>>]}

\* handlers that start although an invitation is being processed
invitationGuard_Open(processing) == TRUE

\* if (processingInvitation) return
invitationGuard(processing) == processing = NoInvitation

\* a mutation hook without onCompleted
respondOnCompleted_NoRefetch(query, rows) == query

\* useMutation(RESPOND_INVITATION, { onCompleted: () => refetch() })
respondOnCompleted(query, rows) == refetch(rows)

\* useQuery(NOTIFICATIONS_QUERY, {fetchPolicy: 'cache-and-network', skip:
\* !isAuthenticated}) of a Header that mounts under a new ApolloProvider
queryOnMount(auth, rows) == IF auth THEN refetch(rows) ELSE {}

\* a logged-in tab: the login of alice completed and the Header mounted
HeaderInit ==
    /\ ls = loginOnSuccess([k \in Keys |-> None], [access_token |-> "tokA", user |-> "alice"])
    /\ qcUser = "alice"
    /\ inflight = {}
    /\ apolloClientInstance = 0
    /\ rendered = TRUE
    /\ navPending = FALSE
    /\ storageEv = 0
    /\ last = Record("headerMount", NoResponse, {}, None, FALSE)
    /\ apolloVersion = 0
    /\ providerClient = getApolloClient(apolloClientInstance)
    /\ builtWith = None
    /\ notifications = <<>>
    /\ processingInvitation = NoInvitation
    /\ serverNotifications = [n \in NotifIds |-> "absent"]
    /\ notificationsQuery = queryOnMount(TRUE, serverNotifications)
    /\ responding = {}
    /\ invitations = [n \in NotifIds |-> "absent"]
    /\ collaborators = [n \in NotifIds |-> 0]
    /\ queryCache = NoQueryCache
    /\ modal = NewModal
    /\ dashboard = NoDashboard

\* the server creates notification n for the user; for an invitation, the
\* Invitation it belongs to is issued
ServerCreate ==
    \E n \in NotifIds :
        /\ serverNotifications[n] = "absent"
        /\ serverNotifications' = [serverNotifications EXCEPT ![n] = "unread"]
        /\ invitations' = IF IsInvitation(n)
                          THEN [invitations EXCEPT ![n] = "pending"] ELSE invitations
        /\ last' = Record("create", NoResponse, {}, None, FALSE)
        /\ UNCHANGED <<sessionVars, pvars, notifications, processingInvitation,
                       notificationsQuery, responding, collaborators>>

\* useSubscription(INVITATION_RECEIVED).onData: the channel delivers a
\* notification that exists, possibly once more: toast, then refetch()
InvitationReceived ==
    \E n \in NotifIds :
        /\ HeaderMounted
        /\ serverNotifications[n] # "absent"
        /\ notificationsQuery' = refetch(serverNotifications)
        /\ last' = Record("deliver", NoResponse, {}, None, FALSE)
        /\ UNCHANGED <<sessionVars, pvars, notifications, processingInvitation, responding,
                       serverNotifications, invitations, collaborators>>

\* the server answers the fetch under way from the rows it holds now
NotificationsServed ==
    \E q \in notificationsQuery :
        /\ ~q.answered
        /\ notificationsQuery' =
               {[q EXCEPT !.answered = TRUE, !.list = notificationsResolver(serverNotifications)]}
        /\ last' = Record("queryServed", NoResponse, {}, None, FALSE)
        /\ UNCHANGED <<sessionVars, pvars, notifications, processingInvitation, responding,
                       serverNotifications, invitations, collaborators>>

\* the answer arrives: the cache merges it and the Header renders the list
NotificationsResult ==
    \E q \in notificationsQuery :
        /\ q.answered
        /\ notifications' = merge(notifications, q.list)
        /\ notificationsQuery' = {}
        /\ last' = Record("queryResult", NoResponse, {}, None, FALSE)
        /\ UNCHANGED <<sessionVars, pvars, processingInvitation, responding,
                       serverNotifications, invitations, collaborators>>

\* a click on Aceptar of an invitation shown in the list
handleAcceptInvitation ==
    \E n \in NotifIds :
        /\ HeaderMounted
        /\ n \in ListIds(notifications) /\ IsInvitation(n)
        /\ invitationGuard(processingInvitation)
        /\ processingInvitation' = n
        /\ responding' = responding \cup
               {[id |-> n, accept |-> TRUE, current |-> TRUE, reported |-> "none"]}
        /\ last' = Record("accept", NoResponse, {}, None, FALSE)
        /\ UNCHANGED <<sessionVars, pvars, notifications, notificationsQuery,
                       serverNotifications, invitations, collaborators>>

\* a click on Rechazar of an invitation shown in the list
handleRejectInvitation ==
    \E n \in NotifIds :
        /\ HeaderMounted
        /\ n \in ListIds(notifications) /\ IsInvitation(n)
        /\ invitationGuard(processingInvitation)
        /\ processingInvitation' = n
        /\ responding' = responding \cup
               {[id |-> n, accept |-> FALSE, current |-> TRUE, reported |-> "none"]}
        /\ last' = Record("reject", NoResponse, {}, None, FALSE)
        /\ UNCHANGED <<sessionVars, pvars, notifications, notificationsQuery,
                       serverNotifications, invitations, collaborators>>

\* the server runs respondInvitation for a mutation it received.  The answer to
\* a mutation whose Header was unmounted since reaches no mounted view: the
\* mutation leaves the model when it is served
RespondServed ==
    \E q \in responding :
        /\ q.reported = "none"
        /\ LET out == respondInvitation(invitations[q.id], collaborators[q.id], q.accept)
           IN  /\ invitations' = [invitations EXCEPT ![q.id] = out.status]
               /\ collaborators' = [collaborators EXCEPT ![q.id] = out.collaborators]
               /\ responding' = (responding \ {q}) \cup
                      (IF q.current THEN {[q EXCEPT !.reported = out.reported]} ELSE {})
        /\ last' = Record("respondServed", NoResponse, {}, None, FALSE)
        /\ UNCHANGED <<sessionVars, pvars, notifications, processingInvitation,
                       notificationsQuery, serverNotifications>>

\* the mutation completes: onCompleted refetches, the handler shows its
\* success toast and its finally resets processingInvitation
RespondCompleted ==
    \E q \in responding :
        /\ q.current /\ q.reported # "none"
        /\ responding' = responding \ {q}
        /\ notificationsQuery' = respondOnCompleted(notificationsQuery, serverNotifications)
        /\ processingInvitation' = NoInvitation
        /\ last' = Record("respondCompleted", NoResponse, {}, None, FALSE)
        /\ UNCHANGED <<sessionVars, pvars, notifications, serverNotifications, invitations,
                       collaborators>>

\* the mutation fails in transport, served or not: the handler's catch shows
\* the error toast, its finally resets processingInvitation
RespondFailed ==
    \E q \in responding :
        /\ q.current
        /\ responding' = responding \ {q}
        /\ processingInvitation' = NoInvitation
        /\ last' = [Record("respondFailed", NoResponse, {}, None, FALSE)
                       EXCEPT !.toasts = 1]
        /\ UNCHANGED <<sessionVars, pvars, notifications, notificationsQuery,
                       serverNotifications, invitations, collaborators>>

\* markRead({variables: {id}}) on an unread notification that is no
\* invitation, completed: onCompleted refetches
MarkRead ==
    \E i \in 1..Len(notifications) :
        LET n == notifications[i].id
        IN  /\ HeaderMounted
            /\ ~IsInvitation(n) /\ notifications[i].status = "unread"
            /\ serverNotifications' = markNotificationRead(serverNotifications, n)
            /\ notificationsQuery' = refetch(serverNotifications')
            /\ last' = Record("markRead", NoResponse, {}, None, FALSE)
            /\ UNCHANGED <<sessionVars, pvars, notifications, processingInvitation, responding,
                           invitations, collaborators>>

\* A 'storage' event with key 'token' in a tab whose Header shows
\* notifications: the rebuild remounts the ApolloProvider subtree, the new
\* Header starts from its initial state and an empty cache; the mutations the
\* old Header sent stay on their way to the server
HeaderStorageEvent ==
    /\ StorageEventSession
    /\ notifications' = <<>>
    /\ processingInvitation' = NoInvitation
    /\ notificationsQuery' = queryOnMount(isAuthenticated(ls), serverNotifications)
    /\ responding' = {[q EXCEPT !.current = FALSE] : q \in {r \in responding : r.reported = "none"}}
    /\ UNCHANGED <<pvars, serverNotifications, invitations, collaborators>>

HeaderNext ==
    \/ ServerCreate
    \/ InvitationReceived
    \/ NotificationsServed
    \/ NotificationsResult
    \/ handleAcceptInvitation
    \/ handleRejectInvitation
    \/ RespondServed
    \/ RespondCompleted
    \/ RespondFailed
    \/ MarkRead
    \/ OtherTabLogin
    \/ HeaderStorageEvent

HeaderSpec == HeaderInit /\ [][HeaderNext]_vars

----------------------------------------------------------------------------

Next ==
    \/ LoginSubmit
    \/ LoginSuccess
    \/ LogoutClick
    \/ LogoutSuccess
    \/ ProfileFetch
    \/ RestRead
    \/ ProfileSuccess
    \/ ReadSuccess
    \/ RestError
    \/ GqlRequest
    \/ GqlSuccess
    \/ GqlError
    \/ StorageEvent
    \/ PageLoad
    \/ OtherTabLogin
    \/ OtherTabLogout

Spec == Init /\ [][Next]_vars

\* the tab with the registration form of the AuthPage in use as well
StoreNext ==
    \/ Next
    \/ RegisterSubmit
    \/ RegisterSuccess

StoreSpec == Init /\ [][StoreNext]_vars

----------------------------------------------------------------------------
(* The react-query cache of the plan pages: hooks/useApi.js, PlanEditor and  *)
(* CompanyInfoEditor.  The pages show one plan; a key written ['name', id]   *)
(* in the code is the key of that plan.                                      *)

PlanListKeys == {"plans", "ownedPlans", "sharedPlans"}
SectionKeys == {"companyIdentity", "strategicAnalysis", "analysisTools", "strategies"}
QueryKeys == PlanListKeys \cup SectionKeys \cup {"plan", "planUsers", "notifications"}

\* the mutations of the plan pages, by the hook or component that owns them
PlanMutations == {"usePlans.create", "usePlans.update", "usePlans.delete",
                  "useOwnedPlans.delete", "PlanEditor.update", "CompanyInfoEditor.save"}
SectionMutations == {"update:" \o k : k \in SectionKeys}
UserMutations == {"usePlanUsers.invite", "usePlanUsers.remove"}
Mutations == PlanMutations \cup SectionMutations \cup UserMutations
                 \cup {"useNotifications.markRead"}

\* usePlans: createPlanMutation, updatePlanMutation, deletePlanMutation
createPlanOnSuccess == {"plans", "ownedPlans", "sharedPlans"}
updatePlanOnSuccess == {"plans", "ownedPlans", "sharedPlans"}
deletePlanOnSuccess == {"plans", "ownedPlans", "sharedPlans"}

\* useOwnedPlans: deletePlanMutation
ownedDeleteOnSuccess == {"ownedPlans", "sharedPlans"}

\* PlanEditor: updatePlanMutation
editorUpdateOnSuccess == {"plan"}

\* CompanyInfoEditor.handleSave: await plansAPI.update(planId, data), then
\* await refetch() of its own ['plan', planId] query; no key is invalidated
handleSaveRefetches == {"plan"}

\* useCompanyIdentity, useStrategicAnalysis, useAnalysisTools, useStrategies:
\* each update mutation invalidates the key of its own section
sectionOnSuccess(k) == {k}

\* usePlanUsers: inviteUserMutation, removeUserMutation
inviteUserOnSuccess == {"planUsers"}
removeUserOnSuccess == {"planUsers"}

\* useNotifications: markReadMutation
markReadOnSuccess == {"notifications"}

\* queryClient.invalidateQueries(key) for every key of `keys`, at the end of
\* mutation m
Settle(qc, m, keys) ==
    [stale |-> qc.stale \cup keys, mutation |-> "none", done |-> m, invalidated |-> keys]

\* a component sends mutation m; one mutation is under way at a time
Mutate ==
    \E m \in Mutations :
        /\ queryCache.mutation = "none"
        /\ queryCache' = [queryCache EXCEPT !.mutation = m]
        /\ last' = Record("mutate", NoResponse, {}, None, FALSE)
        /\ UNCHANGED <<ls, qcUser, inflight, apolloClientInstance, rendered, navPending,
                       storageEv, clientVars, hvars, modal, dashboard>>

usePlansCreateSuccess ==
    /\ queryCache.mutation = "usePlans.create"
    /\ queryCache' = Settle(queryCache, "usePlans.create", createPlanOnSuccess)
    /\ last' = Record("mutationSuccess", NoResponse, {}, None, FALSE)
    /\ UNCHANGED <<ls, qcUser, inflight, apolloClientInstance, rendered, navPending,
                   storageEv, clientVars, hvars, modal, dashboard>>

usePlansUpdateSuccess ==
    /\ queryCache.mutation = "usePlans.update"
    /\ queryCache' = Settle(queryCache, "usePlans.update", updatePlanOnSuccess)
    /\ last' = Record("mutationSuccess", NoResponse, {}, None, FALSE)
    /\ UNCHANGED <<ls, qcUser, inflight, apolloClientInstance, rendered, navPending,
                   storageEv, clientVars, hvars, modal, dashboard>>

usePlansDeleteSuccess ==
    /\ queryCache.mutation = "usePlans.delete"
    /\ queryCache' = Settle(queryCache, "usePlans.delete", deletePlanOnSuccess)
    /\ last' = Record("mutationSuccess", NoResponse, {}, None, FALSE)
    /\ UNCHANGED <<ls, qcUser, inflight, apolloClientInstance, rendered, navPending,
                   storageEv, clientVars, hvars, modal, dashboard>>

\* Dashboard.handleDeletePlan -> useOwnedPlans.deletePlan
useOwnedPlansDeleteSuccess ==
    /\ queryCache.mutation = "useOwnedPlans.delete"
    /\ queryCache' = Settle(queryCache, "useOwnedPlans.delete", ownedDeleteOnSuccess)
    /\ last' = Record("mutationSuccess", NoResponse, {}, None, FALSE)
    /\ UNCHANGED <<ls, qcUser, inflight, apolloClientInstance, rendered, navPending,
                   storageEv, clientVars, hvars, modal, dashboard>>

\* PlanEditor's form of title and description -> updatePlan (mutateAsync)
PlanEditorUpdateSuccess ==
    /\ queryCache.mutation = "PlanEditor.update"
    /\ queryCache' = Settle(queryCache, "PlanEditor.update", editorUpdateOnSuccess)
    /\ last' = Record("mutationSuccess", NoResponse, {}, None, FALSE)
    /\ UNCHANGED <<ls, qcUser, inflight, apolloClientInstance, rendered, navPending,
                   storageEv, clientVars, hvars, modal, dashboard>>

\* CompanyInfoEditor.handleSave with both awaits fulfilled: the refetch leaves
\* ['plan', planId] fresh, which serves a reader of that key as an
\* invalidation would
CompanyInfoSaveSuccess ==
    /\ queryCache.mutation = "CompanyInfoEditor.save"
    /\ queryCache' = [stale |-> queryCache.stale \ handleSaveRefetches,
                      mutation |-> "none",
                      done |-> "CompanyInfoEditor.save",
                      invalidated |-> handleSaveRefetches]
    /\ last' = Record("mutationSuccess", NoResponse, {}, None, FALSE)
    /\ UNCHANGED <<ls, qcUser, inflight, apolloClientInstance, rendered, navPending,
                   storageEv, clientVars, hvars, modal, dashboard>>

\* IdentityEditor, SwotEditor, AnalysisToolsEditor, StrategiesEditor save
SectionUpdateSuccess ==
    \E k \in SectionKeys :
        /\ queryCache.mutation = "update:" \o k
        /\ queryCache' = Settle(queryCache, "update:" \o k, sectionOnSuccess(k))
        /\ last' = Record("mutationSuccess", NoResponse, {}, None, FALSE)
        /\ UNCHANGED <<ls, qcUser, inflight, apolloClientInstance, rendered, navPending,
                       storageEv, clientVars, hvars, modal, dashboard>>

InviteUserSuccess ==
    /\ queryCache.mutation = "usePlanUsers.invite"
    /\ queryCache' = Settle(queryCache, "usePlanUsers.invite", inviteUserOnSuccess)
    /\ last' = Record("mutationSuccess", NoResponse, {}, None, FALSE)
    /\ UNCHANGED <<ls, qcUser, inflight, apolloClientInstance, rendered, navPending,
                   storageEv, clientVars, hvars, modal, dashboard>>

RemoveUserSuccess ==
    /\ queryCache.mutation = "usePlanUsers.remove"
    /\ queryCache' = Settle(queryCache, "usePlanUsers.remove", removeUserOnSuccess)
    /\ last' = Record("mutationSuccess", NoResponse, {}, None, FALSE)
    /\ UNCHANGED <<ls, qcUser, inflight, apolloClientInstance, rendered, navPending,
                   storageEv, clientVars, hvars, modal, dashboard>>

MarkReadSuccess ==
    /\ queryCache.mutation = "useNotifications.markRead"
    /\ queryCache' = Settle(queryCache, "useNotifications.markRead", markReadOnSuccess)
    /\ last' = Record("mutationSuccess", NoResponse, {}, None, FALSE)
    /\ UNCHANGED <<ls, qcUser, inflight, apolloClientInstance, rendered, navPending,
                   storageEv, clientVars, hvars, modal, dashboard>>

\* the request of the mutation under way fails: onError logs (handleSave's
\* catch shows a toast), no key is invalidated
MutationError ==
    /\ queryCache.mutation # "none"
    /\ queryCache' = [queryCache EXCEPT !.mutation = "none"]
    /\ last' = Record("mutationError", NoResponse, {}, None, FALSE)
    /\ UNCHANGED <<ls, qcUser, inflight, apolloClientInstance, rendered, navPending,
                   storageEv, clientVars, hvars, modal, dashboard>>

\* a mounted observer of a stale key refetches it
QueryRefetched ==
    \E k \in queryCache.stale :
        /\ queryCache' = [queryCache EXCEPT !.stale = @ \ {k}]
        /\ last' = Record("queryRefetched", NoResponse, {}, None, FALSE)
        /\ UNCHANGED <<ls, qcUser, inflight, apolloClientInstance, rendered, navPending,
                       storageEv, clientVars, hvars, modal, dashboard>>

CacheNext ==
    \/ Mutate
    \/ usePlansCreateSuccess
    \/ usePlansUpdateSuccess
    \/ usePlansDeleteSuccess
    \/ useOwnedPlansDeleteSuccess
    \/ PlanEditorUpdateSuccess
    \/ CompanyInfoSaveSuccess
    \/ SectionUpdateSuccess
    \/ InviteUserSuccess
    \/ RemoveUserSuccess
    \/ MarkReadSuccess
    \/ MutationError
    \/ QueryRefetched

CacheSpec == HeaderInit /\ [][CacheNext]_vars

----------------------------------------------------------------------------
(* components/forms/CreatePlanModal.jsx *)

MaxEmails == 2
MaxEmailLen == 2

\* the characters of an email field: a blank, a letter, the at sign
Chars == {" ", "a", "@"}
EmailTexts == UNION {[1..n -> Chars] : n \in 0..MaxEmailLen}

Undefined == "undefined"

\* String.prototype.trim
RECURSIVE trimStart(_)
trimStart(e) == IF e # <<>> /\ Head(e) = " " THEN trimStart(Tail(e)) ELSE e
RECURSIVE trimEnd(_)
trimEnd(e) ==
    IF e # <<>> /\ e[Len(e)] = " " THEN trimEnd(SubSeq(e, 1, Len(e) - 1)) ELSE e
trim(e) == trimEnd(trimStart(e))

\* String.prototype.includes on an email text, for one character
emailIncludes(e, c) == \E i \in 1..Len(e) : e[i] = c

\* inviteEmails.filter(email => email.trim() && email.includes('@'))
IsValidEmail(e) == trim(e) # <<>> /\ emailIncludes(e, "@")
validEmails(list) == SelectSeq(list, IsValidEmail)

\* usePlans().createPlan is createPlanMutation.mutate: it sends the request
\* and returns nothing
createPlan(data) == Undefined

\* plan?.id
planId(plan) == IF plan = Undefined THEN Undefined ELSE plan.id

\* if (validEmails.length > 0 && plan?.id) { for (const email of validEmails) ... }
invitesToSend(plan, list) ==
    IF Len(validEmails(list)) > 0 /\ planId(plan) # Undefined
    THEN validEmails(list) ELSE <<>>

\* the fields are disabled while isCreating
isCreating == modal.create = "pending"

addEmailField ==
    /\ ~isCreating
    /\ Len(modal.inviteEmails) < MaxEmails
    /\ modal' = [modal EXCEPT !.inviteEmails = Append(@, <<>>)]
    /\ last' = Record("addEmailField", NoResponse, {}, None, FALSE)
    /\ UNCHANGED <<ls, qcUser, inflight, apolloClientInstance, rendered, navPending,
                   storageEv, clientVars, hvars, queryCache, dashboard>>

removeEmailField ==
    \E index \in 1..Len(modal.inviteEmails) :
        /\ ~isCreating
        /\ Len(modal.inviteEmails) > 1
        /\ modal' = [modal EXCEPT !.inviteEmails =
                        SubSeq(@, 1, index - 1) \o SubSeq(@, index + 1, Len(@))]
        /\ last' = Record("removeEmailField", NoResponse, {}, None, FALSE)
        /\ UNCHANGED <<ls, qcUser, inflight, apolloClientInstance, rendered, navPending,
                       storageEv, clientVars, hvars, queryCache, dashboard>>

updateEmail ==
    \E index \in 1..Len(modal.inviteEmails), value \in EmailTexts :
        /\ ~isCreating
        /\ modal' = [modal EXCEPT !.inviteEmails[index] = value]
        /\ last' = Record("updateEmail", NoResponse, {}, None, FALSE)
        /\ UNCHANGED <<ls, qcUser, inflight, apolloClientInstance, rendered, navPending,
                       storageEv, clientVars, hvars, queryCache, dashboard>>

\* handleSubmit(onSubmit) with a valid title.  createPlan returns at once and
\* without the plan: the await yields nothing to wait for, the loop of invites
\* has nothing to send, and the handler runs to onPlanCreated in this step;
\* createPlan does not throw, the catch is not entered
onSubmit ==
    /\ ~isCreating
    /\ LET plan == createPlan("data")
           sent == invitesToSend(plan, modal.inviteEmails)
       IN  modal' = [inviteEmails |-> << <<>> >>,
                     create |-> "pending",
                     entered |-> Len(validEmails(modal.inviteEmails)),
                     invited |-> sent,
                     onPlanCreated |-> TRUE,
                     submissionError |-> FALSE]
    /\ last' = Record("onSubmit", NoResponse, {}, None, FALSE)
    /\ UNCHANGED <<ls, qcUser, inflight, apolloClientInstance, rendered, navPending,
                   storageEv, clientVars, hvars, queryCache, dashboard>>

\* POST /plans answered 2xx: createPlanMutation.onSuccess
createPlanSuccess ==
    /\ isCreating
    /\ modal' = [modal EXCEPT !.create = "created"]
    /\ queryCache' = Settle(queryCache, "usePlans.create", createPlanOnSuccess)
    /\ last' = Record("createPlanSuccess", NoResponse, {}, None, FALSE)
    /\ UNCHANGED <<ls, qcUser, inflight, apolloClientInstance, rendered, navPending,
                   storageEv, clientVars, hvars, dashboard>>

\* POST /plans failed: createPlanMutation.onError logs
createPlanError ==
    /\ isCreating
    /\ modal' = [modal EXCEPT !.create = "failed"]
    /\ last' = Record("createPlanError", NoResponse, {}, None, FALSE)
    /\ UNCHANGED <<ls, qcUser, inflight, apolloClientInstance, rendered, navPending,
                   storageEv, clientVars, hvars, queryCache, dashboard>>

ModalNext ==
    \/ addEmailField
    \/ removeEmailField
    \/ updateEmail
    \/ onSubmit
    \/ createPlanSuccess
    \/ createPlanError

ModalSpec == HeaderInit /\ [][ModalNext]_vars

----------------------------------------------------------------------------
(* Dashboard: the shared plans of the user, refreshed by the page's timer,   *)
(* in a tab whose Header answers invitations.  GET /api/v1/plans/shared is   *)
(* served by the REST API from the Collaborator rows; plan n is the plan of  *)
(* invitation n.                                                             *)

\* the setInterval of Dashboard's useEffect, left without 'sharedPlans'
intervalInvalidates_OwnedOnly == {"ownedPlans"}

\* the setInterval of Dashboard's useEffect, every 30000 ms
intervalInvalidates == {"ownedPlans", "sharedPlans"}

\* REST API, GET /api/v1/plans/shared: the plans the user collaborates on
getSharedPlans(rows) == {n \in NotifIds : rows[n] > 0}

\* the timer fires: the mounted 'sharedPlans' query is invalidated and
\* refetches; a fetch under way is not started again
DashboardInterval ==
    /\ dashboard.fetch = {}
    /\ dashboard' = [dashboard EXCEPT !.fetch =
                        IF "sharedPlans" \in intervalInvalidates
                        THEN {[answered |-> FALSE, list |-> {}]} ELSE @]
    /\ last' = Record("interval", NoResponse, {}, None, FALSE)
    /\ UNCHANGED <<ls, qcUser, inflight, apolloClientInstance, rendered, navPending,
                   storageEv, clientVars, hvars, queryCache, modal>>

\* the server answers the fetch from the rows it holds now
SharedPlansServed ==
    \E q \in dashboard.fetch :
        /\ ~q.answered
        /\ dashboard' = [dashboard EXCEPT !.fetch =
                            {[answered |-> TRUE, list |-> getSharedPlans(collaborators)]}]
        /\ last' = Record("sharedServed", NoResponse, {}, None, FALSE)
        /\ UNCHANGED <<ls, qcUser, inflight, apolloClientInstance, rendered, navPending,
                       storageEv, clientVars, hvars, queryCache, modal>>

\* useSharedPlans: the answer becomes sharedPlansQuery.data, the list shown
SharedPlansResult ==
    \E q \in dashboard.fetch :
        /\ q.answered
        /\ dashboard' = [shared |-> q.list, fetch |-> {}]
        /\ last' = Record("sharedResult", NoResponse, {}, None, FALSE)
        /\ UNCHANGED <<ls, qcUser, inflight, apolloClientInstance, rendered, navPending,
                       storageEv, clientVars, hvars, queryCache, modal>>

\* the fetch fails: sharedPlansQuery.data keeps the list of the last answer
SharedPlansFailed ==
    \E q \in dashboard.fetch :
        /\ dashboard' = [dashboard EXCEPT !.fetch = {}]
        /\ last' = Record("sharedFailed", NoResponse, {}, None, FALSE)
        /\ UNCHANGED <<ls, qcUser, inflight, apolloClientInstance, rendered, navPending,
                       storageEv, clientVars, hvars, queryCache, modal>>

DashboardNext ==
    \/ ServerCreate
    \/ NotificationsServed
    \/ NotificationsResult
    \/ handleAcceptInvitation
    \/ RespondServed
    \/ RespondCompleted
    \/ RespondFailed
    \/ DashboardInterval
    \/ SharedPlansServed
    \/ SharedPlansResult
    \/ SharedPlansFailed

\* The timer keeps firing while the Dashboard is mounted; a fetch that is sent
\* again and again does not fail every time, neither on its way to the server
\* nor on its way back
DashboardSpec ==
    /\ HeaderInit
    /\ [][DashboardNext]_vars
    /\ WF_vars(DashboardInterval)
    /\ SF_vars(SharedPlansServed)
    /\ SF_vars(SharedPlansResult)

----------------------------------------------------------------------------
(* One tab in which a user logs out and another logs in, with the Header's   *)
(* NOTIFICATIONS_QUERY going through the Apollo client singleton.  Here      *)
(* `notifications` is what the singleton's InMemoryCache holds for the       *)
(* query; a Header mounted with fetchPolicy 'cache-and-network' shows it     *)
(* before the network answers.  The server's rows are those of alice; bob    *)
(* has none.                                                                 *)

\* Realtime API, notifications: the rows of the user the request's token names
notificationsOf(auth, rows) ==
    IF auth = Bearer("tokA") THEN notificationsResolver(rows) ELSE <<>>

\* alice is logged in, her Header mounted and its query on its way
ReloginInit ==
    /\ ls = loginOnSuccess([k \in Keys |-> None], [access_token |-> "tokA", user |-> "alice"])
    /\ qcUser = "alice"
    /\ inflight = {Request("gql", authLink(ls))}
    /\ apolloClientInstance = 0
    /\ rendered = TRUE
    /\ navPending = FALSE
    /\ storageEv = 0
    /\ last = Record("headerMount", NoResponse, {}, None, FALSE)
    /\ apolloVersion = 0
    /\ providerClient = getApolloClient(apolloClientInstance)
    /\ builtWith = None
    /\ notifications = <<>>
    /\ processingInvitation = NoInvitation
    /\ serverNotifications = [n \in NotifIds |-> "absent"]
    /\ notificationsQuery = {}
    /\ responding = {}
    /\ invitations = [n \in NotifIds |-> "absent"]
    /\ collaborators = [n \in NotifIds |-> 0]
    /\ queryCache = NoQueryCache
    /\ modal = NewModal
    /\ dashboard = NoDashboard

\* the query is answered with data: the client that sent it merges the list
\* into its cache
NotificationsFetched ==
    \E r \in Pending("gql") :
        /\ r.auth \in AuthHeaders
        /\ notifications' = merge(notifications, notificationsOf(r.auth, serverNotifications))
        /\ inflight' = inflight \ {r}
        /\ last' = Record("gqlSuccess", NoResponse, {}, None, FALSE)
        /\ UNCHANGED <<ls, qcUser, apolloClientInstance, clientVars, rendered, navPending,
                       storageEv, processingInvitation, notificationsQuery, responding,
                       serverNotifications, invitations, collaborators, pvars>>

ReloginNext ==
    \/ ServerCreate
    \/ GqlRequest
    \/ NotificationsFetched
    \/ LogoutClick
    \/ LogoutSuccess
    \/ LoginSubmit
    \/ LoginSuccess

ReloginSpec == ReloginInit /\ [][ReloginNext]_vars

----------------------------------------------------------------------------
(* Properties *)

RestFailOps == {"loginFail", "logoutFail", "profileFail", "readFail"}

TokenEntry == getItem(ls, "token")
UserEntry == getItem(ls, "user")

\* C1: in every reachable state of the Credential Store the 'user' entry is
\* present only if the 'token' entry is present, whatever sequence of login
\* success, explicit logout, REST 401, GraphQL transport 401 and writes of
\* other tabs led there.
C1_UserOnlyWithToken == UserEntry # None => TokenEntry # None

\* C1 witness: a login has written both entries
C1_Witness ==
    /\ last.op \in {"loginSuccess", "otherTabLogin"}
    /\ UserEntry # None /\ TokenEntry # None

\* C2: in the state right after logout() resolved on a successful POST /logout
\* the store holds neither token nor user, and useAuth reads
\* isAuthenticated = false and user = null.
C2_AfterLogoutNoSession ==
    last.op = "logoutSuccess" =>
        /\ TokenEntry = None
        /\ UserEntry = None
        /\ ~isAuthenticated(ls)
        /\ useAuthUser(ls, qcUser) = None

\* C2 witness: a logout resolved in a tab that had logged in
C2_Witness == last.op = "logoutSuccess" /\ ~rendered /\ TokenEntry = None

\* C3 (as claimed): once logout() has settled - POST /logout answered 2xx,
\* answered with an error status, or not answered at all - the store is cleared
\* and the tab is unauthenticated.
C3_LogoutAlwaysClears ==
    last.op \in {"logoutSuccess", "logoutFail"} =>
        /\ TokenEntry = None
        /\ UserEntry = None
        /\ ~isAuthenticated(ls)

\* C4: whenever a REST request (a background read included) is answered 401,
\* 'token' and 'user' are removed, 'auth:logout' is broadcast, the query cache
\* is cleared, and a session read (useAuth in any component, a render of
\* AppContent) reports unauthenticated with no user.
C4_Rest401Invalidates ==
    (last.op \in RestFailOps /\ last.status = 401) =>
        /\ TokenEntry = None
        /\ UserEntry = None
        /\ "auth:logout" \in last.events
        /\ qcUser = None
        /\ ~isAuthenticated(ls)
        /\ useAuthUser(ls, qcUser) = None
        /\ ~rendered

\* C4 witness: a background read of a logged-in tab came back 401
C4_Witness == last.op = "readFail" /\ last.status = 401 /\ TokenEntry = None

\* C5: right after login succeeded with {access_token, user} the store holds
\* that token and that user, the query cache entry 'user' is that user, a REST
\* request and a GraphQL request sent now carry 'Bearer <access_token>', and
\* the tab renders as authenticated on /dashboard.
C5_LoginEstablishesSession ==
    last.op = "loginSuccess" =>
        /\ TokenEntry = last.data
        /\ UserEntry = JSONstringify(UserOf(last.data))
        /\ JSONparse(UserEntry) = UserOf(last.data)
        /\ qcUser = UserOf(last.data)
        /\ useAuthUser(ls, qcUser) = UserOf(last.data)
        /\ requestInterceptor(ls) = Bearer(last.data)
        /\ authLink(ls) = Bearer(last.data)
        /\ isAuthenticated(ls) /\ rendered
        /\ pathname(rendered) = "/dashboard"

\* C5 witness: a login answered with bob's token
C5_Witness == last.op = "loginSuccess" /\ last.data = "tokB" /\ qcUser = "bob"

\* C6 (as claimed): whenever a GraphQL operation fails with a network error of
\* status 401, 'token' and 'user' are removed and 'auth:logout' is broadcast.
C6_Every401Invalidates ==
    (last.op = "gqlError" /\ last.status = 401) =>
        /\ TokenEntry = None
        /\ UserEntry = None
        /\ "auth:logout" \in last.events

\* What errorLink does guarantee for a network 401: when graphQLErrors hold no
\* resolver-level authorization message, 'token' and 'user' are removed and
\* 'auth:logout' is broadcast, which rebuilds the Apollo client and clears the
\* query cache.
Plain401Invalidates ==
    [][(/\ last'.op = "gqlError"
        /\ last'.status = 401
        /\ ~last'.resolverAuth)
       => /\ getItem(ls', "token") = None
          /\ getItem(ls', "user") = None
          /\ getItem(ls', "access_token") = None
          /\ last'.events = {"auth:logout", "apollo:reset"}
          /\ apolloClientInstance' # apolloClientInstance
          /\ qcUser' = None]_vars

C9_EveryTransitionRebuilds ==
    (\/ last.op \in {"loginSuccess", "logoutSuccess", "storage"}
     \/ "auth:logout" \in last.events)
        => "apollo:reset" \in last.events

\* C10: every GraphQL request carries the token stored at the moment it is
\* sent: after a login completed, a request sent under the new session carries
\* the new token and never the token of the session before.
C10_GqlCarriesCurrentToken ==
    [][last'.op = "gqlRequest" =>
          \A r \in inflight' \ inflight :
              /\ r.kind = "gql"
              /\ r.auth = IF TokenEntry # None THEN Bearer(TokenEntry) ELSE None]_vars

\* C10 witness: a request of alice's session is still under way when a GraphQL
\* request goes out under bob's session with bob's token
C10_Witness ==
    /\ last.op = "gqlRequest"
    /\ TokenEntry = "tokB" /\ qcUser = "bob"
    /\ \E r \in inflight : r.kind # "gql" /\ r.auth = Bearer("tokA")
    /\ \E g \in Pending("gql") : g.auth = Bearer("tokB")

\* the operations that send a request
SendOps == {"loginSubmit", "logoutClick", "profileFetch", "restRead", "gqlRequest"}

C12_RebuildReplacesSingleton ==
    [][/\ "apollo:reset" \in last'.events =>
            /\ apolloClientInstance' # apolloClientInstance
            /\ last'.resets = 1
            /\ apolloVersion' # apolloVersion
            /\ providerClient' = apolloClientInstance'
       /\ ("apollo:reset" \notin last'.events /\ last'.op # "pageLoad") =>
            /\ apolloClientInstance' = apolloClientInstance
            /\ last'.resets = 0
            /\ providerClient' = apolloClientInstance']_vars

\* C12 witness: a second rebuild happened under a mounted Header
C12_Witness ==
    /\ last.op = "storage" /\ HeaderMounted
    /\ apolloClientInstance = 2 /\ providerClient = 2 /\ apolloVersion = 2

\* C13 (as claimed): when a response arrives to a request that was sent with
\* another Authorization header than the store gives now (the session changed
\* in between), the response writes nothing into the Credential Store and
\* nothing into the query cache.
C13_StaleResponseDiscarded ==
    [][\A r \in inflight :
          (/\ last'.op \notin SendOps \cup {"pageLoad"}
           /\ ~\E q \in inflight' : q.kind = r.kind /\ q.auth = r.auth
           /\ r.auth # HeaderNow(r.kind, ls))
          => (ls' = ls /\ qcUser' = qcUser)]_vars

\* C14: once the 'storage' event of another tab's logout or forced
\* invalidation is handled, this tab reads unauthenticated and has rebuilt its
\* Apollo client; and while 'token' is removed no request this tab sends
\* carries a token.
C14_LogoutReachesOtherTab ==
    [][/\ (last'.op = "storage" /\ getItem(ls', "token") = None) =>
            /\ ~isAuthenticated(ls')
            /\ ~rendered'
            /\ apolloClientInstance' # apolloClientInstance
            /\ providerClient' = apolloClientInstance'
            /\ "apollo:reset" \in last'.events
       /\ (last'.op \in SendOps /\ getItem(ls, "token") = None) =>
            \A r \in inflight' \ inflight : r.auth = None]_vars

\* C14 witness: this tab was logged in (its profile is cached) when the logout
\* of the other tab reached it
C14_Witness ==
    /\ last.op = "storage" /\ TokenEntry = None
    /\ qcUser # None /\ ~rendered /\ apolloClientInstance > 0

\* C15 (as claimed): each logout transition of the tab - explicit logout,
\* forced invalidation, a logout propagated from another tab - calls
\* queryClient.clear() exactly once.
C15_ClearOncePerLogout ==
    (\/ last.op = "logoutSuccess"
     \/ "auth:logout" \in last.events
     \/ last.op = "storage" /\ TokenEntry = None)
        => last.clears = 1

\* C20 (as claimed): a REST 401 is handled by the forced invalidation only: the
\* caller's promise is not rejected with it and at most one error message is
\* shown.
C20_Fatal401HandledOnce ==
    (last.op \in RestFailOps /\ last.status = 401)
        => (~last.rejected /\ last.toasts <= 1)

\* the operations that write the Credential Store as a session transition
SessionWriteOps == {"loginSuccess", "logoutSuccess", "otherTabLogin", "otherTabLogout"}

\* C21: 'token' and 'user' change only in a login success, an explicit logout
\* or a forced invalidation (a REST 401, a GraphQL transport 401 without a
\* resolver-level authorization message), in this tab or in another one.
\* Registration, every other request and response, the statuses 403, 404 and
\* 500, a failure without a response, a resolver-level GraphQL error and a
\* rebuild of the Apollo client leave both entries as they were; and a token
\* value is written by a login success only.
C21_StoreWrittenBySessionOnly ==
    [][/\ (getItem(ls', "token") # getItem(ls, "token") \/ getItem(ls', "user") # getItem(ls, "user"))
            => \/ last'.op \in SessionWriteOps
               \/ /\ last'.status = 401
                  /\ ~last'.resolverAuth
                  /\ "auth:logout" \in last'.events
       /\ (getItem(ls', "token") # getItem(ls, "token") /\ getItem(ls', "token") # None)
            => last'.op \in {"loginSuccess", "otherTabLogin"}]_vars

\* C21 witness: a registration attempt was answered 403 while the store held
\* the session another tab had written, and the session is still there
C21_Witness ==
    /\ last.op = "registerFail" /\ last.status = 403
    /\ TokenEntry # None /\ UserEntry # None

\* C22 (as claimed): the listeners of 'auth:logout' run at most once per
\* session transition: when a 401 has ended the session and the listeners
\* have run, the 401 of another request that was under way with a token does
\* not dispatch 'auth:logout' again.
C22_ListenersOncePerTransition ==
    [][\A r \in inflight :
          (/\ "auth:logout" \in last.events
           /\ r.auth \in AuthHeaders
           /\ ~\E q \in inflight' : q.kind = r.kind /\ q.auth = r.auth
           /\ last'.status = 401)
          => "auth:logout" \notin last'.events]_vars

\* C23: a session read through useAuth throws in no reachable state of the
\* store and the query cache; with no token it reads unauthenticated, and
\* with no profile cached (none in the query cache and either no token or no
\* stored user) it reads no user.
C23_SessionReadNeverThrows ==
    /\ ~useAuthThrows(ls, qcUser)
    /\ TokenEntry = None => ~isAuthenticated(ls)
    /\ (qcUser = None /\ (TokenEntry = None \/ UserEntry = None))
          => useAuthUser(ls, qcUser) = None

\* C23 witness: a forced invalidation left neither token nor cached profile in
\* a tab that had logged in, and the read gives the unauthenticated result
C23_Witness ==
    /\ "auth:logout" \in last.events
    /\ TokenEntry = None /\ UserEntry = None /\ qcUser = None
    /\ ~isAuthenticated(ls) /\ useAuthUser(ls, qcUser) = None
    /\ apolloClientInstance > 0

\* C26 (as claimed): a 401 answering a request that was sent under the token
\* of a session that has ended, while the store holds the token of the login
\* that followed, removes nothing from the store and dispatches no
\* 'auth:logout'.
C26_Stale401KeepsNewSession ==
    [][\A r \in inflight :
          (/\ last'.op \in RestFailOps \cup {"gqlError"}
           /\ last'.status = 401 /\ ~last'.resolverAuth
           /\ ~\E q \in inflight' : q.kind = r.kind /\ q.auth = r.auth
           /\ r.auth \in AuthHeaders
           /\ TokenEntry # None /\ rendered /\ qcUser = UserOf(TokenEntry)
           /\ r.auth # Bearer(TokenEntry))
          => (ls' = ls /\ "auth:logout" \notin last'.events)]_vars

\* C28 (as claimed): the user useAuth returns is non-null only while
\* isAuthenticated is true.
C28_UserOnlyWhenAuthenticated ==
    useAuthUser(ls, qcUser) # None => isAuthenticated(ls)

\* C29 (as claimed): a failed login - rejected credentials or a transport
\* failure - rejects to the caller and leaves the store as it was, whatever
\* another tab wrote meanwhile.
C29_FailedLoginKeepsStore ==
    [][last'.op = "loginFail" => (last'.rejected /\ ls' = ls)]_vars

----------------------------------------------------------------------------
(* Properties of the Header's notifications and invitations (HeaderSpec) *)

ExistingIds == {n \in NotifIds : serverNotifications[n] # "absent"}

\* C16: respondInvitation called twice on an invitation, with any accept
\* values, leaves the terminal status the first call set (a reject after an
\* accept still reports accepted), creates at most one Collaborator row, and
\* every answered call reports the terminal status that stands.
C16_RespondIdempotent ==
    [][\A n \in NotifIds :
          /\ invitations[n] \in Terminal =>
                (invitations'[n] = invitations[n] /\ collaborators'[n] = collaborators[n])
          /\ collaborators'[n] <= 1
          /\ (collaborators'[n] = 1) => invitations'[n] = "accepted"
          /\ \A q \in responding' :
                (q.id = n /\ q.reported # "none") => q.reported = invitations'[n]]_vars

\* C16 witness: a repeat call with accept = false on an accepted invitation
\* was answered 'accepted', with one Collaborator row
C16_Witness ==
    \E q \in responding :
        /\ ~q.accept /\ q.reported = "accepted"
        /\ invitations[q.id] = "accepted" /\ collaborators[q.id] = 1

\* C17: the Header never has two of its submissions under way
\* (processingInvitation is set exactly while one is), and a submission that
\* reaches the server next to another one - sent by a Header unmounted since -
\* finds the terminal state the first one set and changes neither the status
\* nor the Collaborator rows.
C17_DoubleSubmissionKeepsState ==
    [][/\ Cardinality({q \in responding' : q.current}) <= 1
       /\ (processingInvitation' # NoInvitation) <=> (\E q \in responding' : q.current)
       /\ \A q \in responding' : q.current => q.id = processingInvitation'
       /\ \A n \in NotifIds :
             invitations[n] \in Terminal =>
                (invitations'[n] = invitations[n] /\ collaborators'[n] = collaborators[n])]_vars

\* C17 witness: an accept and a reject of the same pending invitation are
\* under way together
C17_Witness ==
    \E q1 \in responding, q2 \in responding :
        /\ q1.id = q2.id /\ q1.accept # q2.accept
        /\ ~q1.current /\ q2.current
        /\ q1.reported = "none" /\ q2.reported = "none"
        /\ invitations[q1.id] = "pending"
        /\ processingInvitation = q2.id

\* C18: after any sequence of deliveries and refreshes the badge count equals
\* the number of unread notifications of the list, no id is listed twice, and
\* a delivery changes neither the list nor the count.
C18_BadgeCountsUnreadOnce ==
    [][/\ unreadCount(notifications') =
             Cardinality({n \in NotifIds :
                 \E i \in 1..Len(notifications') :
                     notifications'[i].id = n /\ notifications'[i].status = "unread"})
       /\ Len(notifications') = Cardinality(ListIds(notifications'))
       /\ last'.op = "deliver" =>
             /\ notifications' = notifications
             /\ unreadCount(notifications') = unreadCount(notifications)]_vars

\* C18 witness: an event was delivered while every notification of the server,
\* the delivered one included, was already listed, one of them unread
C18_Witness ==
    /\ last.op = "deliver"
    /\ notifications # <<>>
    /\ ListIds(notifications) = ExistingIds
    /\ unreadCount(notifications) >= 1

\* C19: while authenticated, the step that rebuilds the Apollo client and the
\* step that completes an accept or reject each issue a full fetch of the
\* notification list, and the list shown when a fetch is answered holds every
\* notification that existed when the fetch was issued.
C19_RefetchAfterRebuildAndRespond ==
    [][/\ ((last'.op = "storage" /\ isAuthenticated(ls')) \/ last'.op = "respondCompleted") =>
            /\ Cardinality(notificationsQuery') = 1
            /\ \A q \in notificationsQuery' : ~q.answered /\ q.known = ExistingIds
       /\ last'.op = "queryResult" =>
            \A q \in notificationsQuery : q.known \subseteq ListIds(notifications')]_vars

\* C19 witness: after a rebuild the answered fetch lists an invitation
C19_Witness ==
    /\ last.op = "queryResult"
    /\ apolloVersion > 0
    /\ 1 \in ListIds(notifications)

----------------------------------------------------------------------------
(* Properties of the plan pages (CacheSpec, ModalSpec, DashboardSpec) and of *)
(* a tab that changes its user (ReloginSpec)                                 *)

\* the keys that hold entities mutation m affects; a plan that was just
\* created has no ['plan', id] entry yet
AffectedKeys(m) ==
    IF m = "usePlans.create" THEN PlanListKeys
    ELSE IF m \in PlanMutations THEN PlanListKeys \cup {"plan"}
    ELSE IF m \in SectionMutations THEN {k \in SectionKeys : m = "update:" \o k}
    ELSE IF m \in UserMutations THEN {"planUsers"}
    ELSE {"notifications"}

\* C24: after every successful REST mutation every query-cache key holding
\* entities the mutation affects is invalidated: 'plans', 'ownedPlans',
\* 'sharedPlans' and ['plan', id] after a plan is created, updated or deleted
\* from any component, the section's key after a section update,
\* ['planUsers', id] after invite or remove, 'notifications' after mark-read.
C24_MutationsInvalidateAffectedKeys ==
    queryCache.done # "none" =>
        AffectedKeys(queryCache.done) \subseteq queryCache.invalidated

\* C25: after the invited user accepted an invitation, the plan of that
\* invitation eventually is in the list of shared plans the Dashboard shows,
\* with no reload of the page.
C25_AcceptedPlanShown ==
    \A n \in NotifIds : (invitations[n] = "accepted") ~> (n \in dashboard.shared)

\* C25 witness: the accept of invitation 1 completed in this tab and a later
\* answer to the Dashboard's fetch lists plan 1
C25_Witness ==
    /\ invitations[1] = "accepted"
    /\ collaborators[1] = 1
    /\ processingInvitation = NoInvitation
    /\ last.op = "sharedResult"
    /\ 1 \in dashboard.shared

C30_SubmitWaitsForCreation ==
    /\ modal.onPlanCreated =>
          (modal.create = "created" /\ Len(modal.invited) = modal.entered)
    /\ modal.create = "failed" =>
          (modal.invited = <<>> /\ ~modal.onPlanCreated /\ modal.submissionError)

====
